---- MODULE Spec2Model ----
(***************************************************************************)
(* Model of the consensus core of the beacon-chain node:                   *)
(*   - the block pipeline  (blockchain.ChainService.ReceiveBlock),         *)
(*   - the fork-choice store (forkchoice.Store).                           *)
(* Roots are small naturals; 0 is the all-zero root.  A block is known by  *)
(* its signing root, a beacon state by the root of the block whose         *)
(* post-state it is.                                                       *)
(***************************************************************************)
EXTENDS Naturals, Integers, Sequences, FiniteSets, TLC

\* ------------------------------------------------------------------ bounds
NCallers == 2
MaxCalls == 3
MaxNow == 3
NValidators == 2
MaxEpoch == 1
MaxSlot == 3
MaxFcCalls == 4

\* --------------------------------------------------------------- constants
SecondsPerSlot == 1
SlotsPerEpoch == 2

None == "none"
NoState == 0
NoCaller == 0
ZeroRoot == 0
GenesisRoot == 1
GenesisTime == 1

EmptyBytes == -1
Callers == 1..NCallers
Validators == 1..NValidators

\* The blocks of the model.  transitionOK: the core state transition accepts
\* the block; stateRootOK: block.state_root is the tree-hash root of the
\* post-state; justifiedEpoch and finalizedEpoch: the epochs of
\* current_justified_checkpoint and finalized_checkpoint in the post-state.
Blk(slot, parent, transitionOK, stateRootOK, justifiedEpoch, finalizedEpoch) ==
  [slot |-> slot, parent |-> parent, transitionOK |-> transitionOK,
   stateRootOK |-> stateRootOK, justifiedEpoch |-> justifiedEpoch,
   finalizedEpoch |-> finalizedEpoch]

BlockTable ==
  [r \in 1..9 |->
     CASE r = 1 -> Blk(0, 0, TRUE,  TRUE,  0, 0)
       [] r = 2 -> Blk(1, 1, TRUE,  TRUE,  0, 0)
       [] r = 3 -> Blk(2, 2, TRUE,  TRUE,  1, 1)
       [] r = 4 -> Blk(1, 1, FALSE, TRUE,  0, 0)
       [] r = 5 -> Blk(2, 1, TRUE,  FALSE, 1, 1)
       [] r = 6 -> Blk(0, 0, TRUE,  TRUE,  0, 0)
       [] r = 7 -> Blk(0, 1, TRUE,  TRUE,  0, 0)
       [] r = 8 -> Blk(2, 4, TRUE,  TRUE,  0, 0)
       [] OTHER -> Blk(2, 1, TRUE,  TRUE,  1, 0)]

Roots == DOMAIN BlockTable
\* The blocks callers submit to ReceiveBlock.
Submitted == 2..8

\* ssz.SigningRoot: a block is identified by its root.
SigningRoot(b) == b

\* ssz.HashTreeRoot of a block: the root over all its fields, the signature
\* included; no block is stored under it.
HashTreeRoot(b) == b + 10

\* ssz.HashTreeRoot of a beacon state: the state root, which is no block's
\* signing root.
StateRoot(state) == state + 20

Max(a, b) == IF a >= b THEN a ELSE b

\* helpers.IsEpochStart
IsEpochStart(slot) == slot % SlotsPerEpoch = 0

VARIABLES
  pc,          \* position of each ReceiveBlock caller
  blk,         \* the block argument of each caller
  st,          \* the caller's local beaconState
  ret,         \* what the call returned: [err, state]
  trace,       \* the effects the call has carried out, in order
  lockHolder,  \* receiveBlockLock
  db,          \* beaconDB
  snap,        \* beaconDB as it was when the running call took the lock
  announced,   \* p2p.Broadcast log
  ops,         \* operation pool feed, attestation service, pending deposits
  helperClears,\* helpers.ClearAllCaches calls, by the block that caused them
  ncalls,
  justifiedCheckpt,  \* forkchoice.Store.justifiedCheckpt
  fcStore,     \* the fork-choice store's db: blocks, checkpoint states, latest messages
  enumeration, \* the order in which a scan of the block store yields the children
  headRes,     \* what the last Head() call came to
  pickRes,     \* what the last child selection came to
  time,        \* forkchoice.Store.time
  finalizedCheckpt,  \* forkchoice.Store.finalizedCheckpt
  fcRes,       \* the last fork-choice call: [op, arg, io, err]; io: a store
               \* call or a hashing failed in it
  rejected,    \* the last block OnBlock turned away as from the future
  fcCalls,     \* the number of fork-choice store calls made
  ancCall,     \* the last Ancestor call: [root, slot, res]
  balCall,     \* the last LatestAttestingBalance call: [root, res]
  boot,        \* position of ChainService.Start and its chain-start goroutine
  bootLog,     \* the genesis writes carried out, in order, and the publication
  records,     \* the single-key records of beaconDB that are present
  bootRuns,    \* the number of runs of processChainStartTime
  dbRes,       \* the last direct call of beaconDB: [op, root, io, had, ok,
               \* found, prev]; prev: the head before the call
  canonicalBlocks  \* ChainService.canonicalBlocks: slot -> root

pipeVars == <<pc, blk, st, ret, trace, lockHolder, db, snap, announced, ops,
              helperClears, ncalls>>
storeVars == <<time, finalizedCheckpt, fcRes, rejected, fcCalls>>
queryVars == <<ancCall, balCall>>
fcVars == <<justifiedCheckpt, fcStore, enumeration, headRes, pickRes,
            storeVars, queryVars>>

svcVars == <<boot, bootLog, records, bootRuns, dbRes, canonicalBlocks>>

vars == <<pipeVars, fcVars, svcVars>>

NoRet == [err |-> None, state |-> NoState]

\* ------------------------------------------------------------ chain store
\* An empty beaconDB: blocks and the block cache, the evil-block deny list,
\* attestation targets, historical states by block root, the validator
\* pubkey index and FFG checkpoint records (by the block whose epoch
\* transition wrote them), and the highest block slot.
EmptyDB ==
  [blocks |-> {}, cache |-> {}, evil |-> {}, attTargets |-> {},
   histStates |-> [r \in Roots |-> NoState], valIdx |-> {}, valDel |-> {},
   ffg |-> {}, highestSlot |-> 0, head |-> ZeroRoot,
   canonical |-> [s \in 0..MaxSlot |-> ZeroRoot], headState |-> NoState]

\* db.HasBlock
HasBlock(d, r) == r \in d.blocks

\* db.Block: a cache hit never touches the disk; otherwise the read may fail.
\* found = FALSE with ok = TRUE is the (nil, nil) answer for an absent key.
Block(d, r, io) ==
  IF r \in d.cache THEN [ok |-> TRUE, found |-> TRUE]
  ELSE IF ~io THEN [ok |-> FALSE, found |-> FALSE]
  ELSE [ok |-> TRUE, found |-> r \in d.blocks]

\* A SaveBlock that refreshes the cache and leaves the DB alone.
SaveBlock_CacheOnly(d, r, io) ==
  [ok |-> TRUE, err |-> None, db |-> [d EXCEPT !.cache = @ \cup {r}]]

\* A SaveBlock that fills the cache before the DB write.
SaveBlock_CacheFirst(d, r, io) ==
  IF r \in d.evil
  THEN [ok |-> FALSE, err |-> "Blacklisted", db |-> [d EXCEPT !.cache = @ \cup {r}]]
  ELSE IF ~io
  THEN [ok |-> FALSE, err |-> "StoreIO", db |-> [d EXCEPT !.cache = @ \cup {r}]]
  ELSE [ok |-> TRUE, err |-> None,
        db |-> [d EXCEPT !.blocks = @ \cup {r}, !.cache = @ \cup {r},
                         !.highestSlot = Max(@, BlockTable[r].slot)]]

\* db.SaveBlock: upsert by signing root, refused for an evil root.
SaveBlock(d, r, io) ==
  IF r \in d.evil THEN [ok |-> FALSE, err |-> "Blacklisted", db |-> d]
  ELSE IF ~io THEN [ok |-> FALSE, err |-> "StoreIO", db |-> d]
  ELSE [ok |-> TRUE, err |-> None,
        db |-> [d EXCEPT !.blocks = @ \cup {r}, !.cache = @ \cup {r},
                         !.highestSlot = Max(@, BlockTable[r].slot)]]

\* A DeleteBlock that leaves the cache entry in place.
DeleteBlock_KeepsCache(d, r, io) ==
  [ok |-> TRUE, db |-> [d EXCEPT !.blocks = @ \ {r}]]

\* db.DeleteBlock: evicts from cache and DB.
DeleteBlock(d, r, io) ==
  IF ~io THEN [ok |-> FALSE, db |-> d]
  ELSE [ok |-> TRUE, db |-> [d EXCEPT !.blocks = @ \ {r}, !.cache = @ \ {r}]]

\* db.MarkEvilBlockHash
MarkEvilBlockHash(d, r) == [d EXCEPT !.evil = @ \cup {r}]

\* db.SaveAttestationTarget
SaveAttestationTarget(d, r, io) ==
  IF ~io THEN [ok |-> FALSE, db |-> d]
  ELSE [ok |-> TRUE, db |-> [d EXCEPT !.attTargets = @ \cup {r}]]

\* db.SaveHistoricalState(ctx, state, blockRoot)
SaveHistoricalState(d, state, r, io) ==
  IF ~io THEN [ok |-> FALSE, db |-> d]
  ELSE [ok |-> TRUE, db |-> [d EXCEPT !.histStates[r] = state]]

\* db.ClearBlockCache
ClearBlockCache(d) == [d EXCEPT !.cache = {}]

\* An UpdateChainHead that does not look for the block.
UpdateChainHead_NoCheck(d, R, r, state, io) ==
  [ok |-> TRUE,
   db |-> [d EXCEPT !.head = r, !.headState = state,
                    !.canonical = [s \in 0..MaxSlot |->
                                     IF s = BlockTable[r].slot THEN r
                                     ELSE IF s > BlockTable[r].slot THEN ZeroRoot
                                     ELSE @[s]]],
   records |-> R \cup {"chain_head", "head_state"}]

\* An UpdateChainHead that keeps the head pointer when the block's slot is not
\* above the head's.
UpdateChainHead_Monotonic(d, R, r, state, io) ==
  IF ~io \/ r \notin d.blocks THEN [ok |-> FALSE, db |-> d, records |-> R]
  ELSE IF d.head # ZeroRoot /\ BlockTable[r].slot <= BlockTable[d.head].slot
  THEN [ok |-> TRUE, db |-> d, records |-> R]
  ELSE UpdateChainHead_NoCheck(d, R, r, state, io)

\* db.UpdateChainHead(ctx, block, state): the block must be stored; persists
\* the head pointer, rewrites the canonical index at the block's slot and
\* drops the entries above it, and commits the state.
UpdateChainHead(d, R, r, state, io) ==
  IF ~io \/ r \notin d.blocks THEN [ok |-> FALSE, db |-> d, records |-> R]
  ELSE [ok |-> TRUE,
        db |-> [d EXCEPT !.head = r, !.headState = state,
                         !.canonical = [s \in 0..MaxSlot |->
                                          IF s = BlockTable[r].slot THEN r
                                          ELSE IF s > BlockTable[r].slot
                                          THEN ZeroRoot
                                          ELSE @[s]]],
        records |-> R \cup {"chain_head", "head_state"}]

\* db.ChainHead
ChainHead(d) == d.head

\* db.CanonicalBlockBySlot
CanonicalBlockBySlot(d, slot) == d.canonical[slot]

\* db.HistoricalStateFromSlot(ctx, slot, blockRoot): the state after the
\* block blockRoot, rebuilt from the nearest saved ancestor state.
HistoricalStateFromSlot(d, r, io) ==
  IF ~io THEN [ok |-> FALSE, state |-> NoState]
  ELSE [ok |-> TRUE, state |-> r]

\* The store after genesis: genesis block, its attestation target and state.
GenesisDB ==
  [EmptyDB EXCEPT !.blocks = {GenesisRoot}, !.cache = {GenesisRoot},
                  !.attTargets = {GenesisRoot},
                  !.histStates[GenesisRoot] = GenesisRoot,
                  !.head = GenesisRoot,
                  !.canonical[0] = GenesisRoot,
                  !.headState = GenesisRoot]

NoSnap == [db |-> EmptyDB, announced |-> 0]

\* The single-key records of beaconDB: the head state InitializeState and
\* UpdateChainHead commit, the head pointer, and the justified and finalized
\* block and state.
GenesisRecords ==
  {"head_state", "chain_head", "justified_block", "finalized_block",
   "justified_state", "finalized_state"}

NoDbRes ==
  [op |-> None, root |-> ZeroRoot, io |-> TRUE, had |-> FALSE, ok |-> TRUE,
   found |-> FALSE, prev |-> ZeroRoot]

\* make(map[uint64][]byte): no slot has a canonical root.
NoCanonical == [s \in 0..MaxSlot |-> ZeroRoot]

\* A node whose chain was initialized in an earlier run and whose service has
\* started: every genesis record is in beaconDB and no bootstrap runs.
Booted ==
  /\ boot = "running"
  /\ bootLog = <<>>
  /\ records = GenesisRecords
  /\ bootRuns = 0
  /\ dbRes = NoDbRes
  /\ canonicalBlocks = NoCanonical

\* --------------------------------------------------------- block pipeline
\* b.IsValidBlock: the parent is stored, the Eth1 block is known to the
\* deposit watcher, and the local clock has reached the block's slot time.
IsValidBlock(d, b, now, eth1Known) ==
  IF ~HasBlock(d, BlockTable[b].parent) THEN "ParentNotProcessed"
  ELSE IF ~eth1Known THEN "UnknownEth1"
  ELSE IF now < GenesisTime + BlockTable[b].slot * SecondsPerSlot THEN "FromFuture"
  ELSE None

\* VerifyBlockValidity without the slot check.
VerifyBlockValidity_NoSlotCheck(d, b, now, eth1Known) ==
  IsValidBlock(d, b, now, eth1Known)

\* ChainService.VerifyBlockValidity
VerifyBlockValidity(d, b, now, eth1Known) ==
  IF BlockTable[b].slot = 0 THEN "GenesisReplay"
  ELSE IsValidBlock(d, b, now, eth1Known)

\* state.ExecuteStateTransition: the post-state of b, or a failure.
ExecuteStateTransition(pre, b) ==
  IF BlockTable[b].transitionOK THEN [ok |-> TRUE, state |-> b]
  ELSE [ok |-> FALSE, state |-> NoState]

\* The state AdvanceState hands to SaveHistoricalState: its beaconState
\* argument.
HistoricalStateToSave(beaconState, newState) == beaconState

\* ChainService.AdvanceState.  fail names the persistence call that fails
\* ("none": all succeed).  The result carries the store, the returned state,
\* the error, the effects carried out and whether the helper caches were
\* cleared.
AdvanceState(d, beaconState, b, fail) ==
  LET t == ExecuteStateTransition(beaconState, b) IN
  IF ~t.ok
  THEN [db |-> d, state |-> beaconState, err |-> "BlockFailedProcessing",
        effects |-> <<>>, cleared |-> FALSE]
  ELSE
    LET newState == t.state
        final == BlockTable[newState].finalizedEpoch > BlockTable[beaconState].finalizedEpoch
        d1 == IF final THEN ClearBlockCache(d) ELSE d
        e1 == <<"transition">> \o (IF final THEN <<"clear_caches">> ELSE <<>>)
        h == SaveHistoricalState(d1, HistoricalStateToSave(beaconState, newState), b, fail # "hist")
        e2 == e1 \o <<"save_hist">>
        d3 == [h.db EXCEPT !.valIdx = @ \cup {b}]
        d4 == [d3 EXCEPT !.valDel = @ \cup {b}]
        d5 == [d4 EXCEPT !.ffg = @ \cup {b}]
    IN
    IF ~h.ok
    THEN [db |-> d1, state |-> NoState, err |-> "SaveHistoricalState",
          effects |-> e1, cleared |-> final]
    ELSE IF ~IsEpochStart(BlockTable[newState].slot)
    THEN [db |-> h.db, state |-> newState, err |-> None,
          effects |-> e2, cleared |-> final]
    ELSE IF fail = "saveidx"
    THEN [db |-> h.db, state |-> newState, err |-> "saveValidatorIdx",
          effects |-> e2, cleared |-> final]
    ELSE IF fail = "delidx"
    THEN [db |-> d3, state |-> newState, err |-> "deleteValidatorIdx",
          effects |-> e2 \o <<"val_idx">>, cleared |-> final]
    ELSE IF fail = "ffg"
    THEN [db |-> d4, state |-> newState, err |-> "updateFFGCheckPts",
          effects |-> e2 \o <<"val_idx", "val_del">>, cleared |-> final]
    ELSE [db |-> d5, state |-> newState, err |-> None,
          effects |-> e2 \o <<"val_idx", "val_del", "ffg">>, cleared |-> final]

\* A Lock that never waits.
LockFree_NeverWaits(holder) == TRUE

\* sync.Mutex: Lock proceeds only when no caller holds the mutex.
LockFree(holder) == holder = NoCaller

\* The nil check on the parent, inverted.
ParentOutcome_Inverted(parent) ==
  IF ~parent.ok THEN "StoreIO"
  ELSE IF parent.found THEN "UnknownParent"
  ELSE None

\* ReceiveBlock, lines 61-67: what the parent lookup leads to.
ParentOutcome(parent) ==
  IF ~parent.ok THEN "StoreIO"
  ELSE IF ~parent.found THEN "UnknownParent"
  ELSE None

\* The announce sent whatever SaveAttestationTarget answered.
AfterSaveAttestationTarget_Ignored(ok) == "broadcast"

\* SaveAndBroadcastBlock, lines 171-177: the announce follows only a
\* successful SaveAttestationTarget.
AfterSaveAttestationTarget(ok) == IF ok THEN "broadcast" ELSE "return"

\* The type switch never matching *BlockFailedProcessingErr.
IsBlockFailedProcessingErr_Never(err) == FALSE

\* ReceiveBlock, lines 95-105: a BlockFailedProcessingErr is handled by
\* evil-listing and deleting the block, any other error is returned as is.
IsBlockFailedProcessingErr(err) == err = "BlockFailedProcessing"

\* A state-root check that accepts every state.
StateRootMatches_Always(b, state) == TRUE

\* ReceiveBlock, lines 118-120: the state-root check.
StateRootMatches(b, state) == BlockTable[b].stateRootOK

\* The deferred Unlock and the return of (state, err).
\* The process has not been ended by log.Fatalf.
ProcessAlive == boot # "fatal"

Return(p, e, s) ==
  /\ pc' = [pc EXCEPT ![p] = "done"]
  /\ ret' = [ret EXCEPT ![p] = [err |-> e, state |-> s]]
  /\ lockHolder' = NoCaller
  /\ snap' = NoSnap

Goto(p, l) ==
  /\ pc' = [pc EXCEPT ![p] = l]
  /\ UNCHANGED <<ret, lockHolder, snap>>

Did(p, effects) == trace' = [trace EXCEPT ![p] = @ \o effects]

\* A caller invokes ReceiveBlock(ctx, b).
Call(p, b) ==
  /\ ProcessAlive
  /\ pc[p] \in {"idle", "done"}
  /\ ncalls < MaxCalls
  /\ ncalls' = ncalls + 1
  /\ pc' = [pc EXCEPT ![p] = "lock"]
  /\ blk' = [blk EXCEPT ![p] = b]
  /\ st' = [st EXCEPT ![p] = NoState]
  /\ ret' = [ret EXCEPT ![p] = NoRet]
  /\ trace' = [trace EXCEPT ![p] = <<>>]
  /\ UNCHANGED <<lockHolder, db, snap, announced, ops, helperClears>>
  /\ UNCHANGED <<fcVars, svcVars>>

\* c.receiveBlockLock.Lock()
Lock(p) ==
  /\ ProcessAlive
  /\ pc[p] = "lock"
  /\ LockFree(lockHolder)
  /\ lockHolder' = p
  /\ snap' = [db |-> db, announced |-> Len(announced)]
  /\ pc' = [pc EXCEPT ![p] = "parent"]
  /\ UNCHANGED <<blk, st, ret, trace, db, announced, ops, helperClears, ncalls>>
  /\ UNCHANGED <<fcVars, svcVars>>

\* parent, err := c.beaconDB.Block(parentRoot)
LocateParent(p) ==
  /\ ProcessAlive
  /\ pc[p] = "parent"
  /\ \E io \in BOOLEAN :
       LET o == ParentOutcome(Block(db, BlockTable[blk[p]].parent, io)) IN
       IF o # None THEN Return(p, o, NoState) ELSE Goto(p, "prestate")
  /\ UNCHANGED <<blk, st, trace, db, announced, ops, helperClears, ncalls>>
  /\ UNCHANGED <<fcVars, svcVars>>

\* beaconState, err := c.beaconDB.HistoricalStateFromSlot(...)
LoadPreState(p) ==
  /\ ProcessAlive
  /\ pc[p] = "prestate"
  /\ \E io \in BOOLEAN :
       LET h == HistoricalStateFromSlot(db, BlockTable[blk[p]].parent, io) IN
       IF ~h.ok
       THEN Return(p, "StatePreload", NoState) /\ UNCHANGED st
       ELSE Goto(p, "verify") /\ st' = [st EXCEPT ![p] = h.state]
  /\ UNCHANGED <<blk, trace, db, announced, ops, helperClears, ncalls>>
  /\ UNCHANGED <<fcVars, svcVars>>

\* blockRoot, err := ssz.SigningRoot(block), then
\* c.VerifyBlockValidity(ctx, block, beaconState).  A block that hashed here
\* hashes again in SaveAndBroadcastBlock and AdvanceState.
Verify(p) ==
  /\ ProcessAlive
  /\ pc[p] = "verify"
  /\ \E hashOK \in BOOLEAN, now \in 0..MaxNow, eth1Known \in BOOLEAN :
       LET e == VerifyBlockValidity(db, blk[p], now, eth1Known) IN
       IF ~hashOK THEN Return(p, "HashBlock", NoState)
       ELSE IF e # None THEN Return(p, e, st[p]) ELSE Goto(p, "save")
  /\ UNCHANGED <<blk, st, trace, db, announced, ops, helperClears, ncalls>>
  /\ UNCHANGED <<fcVars, svcVars>>

\* SaveAndBroadcastBlock: c.beaconDB.SaveBlock(block)
SaveBlockStep(p) ==
  /\ ProcessAlive
  /\ pc[p] = "save"
  /\ \E io \in BOOLEAN :
       LET s == SaveBlock(db, SigningRoot(blk[p]), io) IN
       IF ~s.ok
       THEN /\ Return(p, IF s.err = "Blacklisted" THEN "SaveBlockBlacklisted"
                                                   ELSE "SaveBlockIO", st[p])
            /\ UNCHANGED <<db, trace>>
       ELSE /\ Goto(p, "saveAtt")
            /\ db' = s.db
            /\ Did(p, <<"save_block">>)
  /\ UNCHANGED <<blk, st, announced, ops, helperClears, ncalls>>
  /\ UNCHANGED <<fcVars, svcVars>>

\* SaveAndBroadcastBlock: c.beaconDB.SaveAttestationTarget(...)
SaveAttestationTargetStep(p) ==
  /\ ProcessAlive
  /\ pc[p] = "saveAtt"
  /\ \E io \in BOOLEAN :
       LET s == SaveAttestationTarget(db, SigningRoot(blk[p]), io) IN
       /\ db' = s.db
       /\ IF s.ok THEN Did(p, <<"save_attestation_target">>) ELSE UNCHANGED trace
       /\ IF AfterSaveAttestationTarget(s.ok) = "broadcast"
          THEN Goto(p, "broadcast")
          ELSE Return(p, "SaveAttestationTargetIO", st[p])
  /\ UNCHANGED <<blk, st, announced, ops, helperClears, ncalls>>
  /\ UNCHANGED <<fcVars, svcVars>>

\* SaveAndBroadcastBlock: c.p2p.Broadcast(ctx, &pb.BeaconBlockAnnounce{...})
BroadcastStep(p) ==
  /\ ProcessAlive
  /\ pc[p] = "broadcast"
  /\ announced' = Append(announced, [hash |-> SigningRoot(blk[p]),
                                      slot |-> BlockTable[blk[p]].slot])
  /\ Did(p, <<"announce">>)
  /\ Goto(p, "advance")
  /\ UNCHANGED <<blk, st, db, ops, helperClears, ncalls>>
  /\ UNCHANGED <<fcVars, svcVars>>

\* beaconState, err = c.AdvanceState(ctx, beaconState, block)
AdvanceStep(p) ==
  /\ ProcessAlive
  /\ pc[p] = "advance"
  /\ \E fail \in {"none", "hist", "saveidx", "delidx", "ffg"} :
       LET a == AdvanceState(db, st[p], blk[p], fail) IN
       /\ db' = a.db
       /\ Did(p, a.effects)
       /\ helperClears' = IF a.cleared THEN helperClears \cup {blk[p]} ELSE helperClears
       /\ st' = [st EXCEPT ![p] = a.state]
       /\ IF a.err = None THEN Goto(p, "rootcheck")
          ELSE IF IsBlockFailedProcessingErr(a.err) THEN Goto(p, "failed")
          ELSE Return(p, "TransitionPersist", a.state)
  /\ UNCHANGED <<blk, announced, ops, ncalls>>
  /\ UNCHANGED <<fcVars, svcVars>>

\* The BlockFailedProcessingErr case: MarkEvilBlockHash, then DeleteBlock.
FailedStep(p) ==
  /\ ProcessAlive
  /\ pc[p] = "failed"
  /\ \E io \in BOOLEAN :
       LET d1 == MarkEvilBlockHash(db, SigningRoot(blk[p]))
           del == DeleteBlock(d1, blk[p], io) IN
       /\ db' = del.db
       /\ IF del.ok
          THEN Did(p, <<"mark_evil", "delete">>) /\ Return(p, "BlockFailedProcessing", st[p])
          ELSE Did(p, <<"mark_evil">>) /\ Return(p, "DeleteBlockIO", NoState)
  /\ UNCHANGED <<blk, st, announced, ops, helperClears, ncalls>>
  /\ UNCHANGED <<fcVars, svcVars>>

\* Check state root: ssz.HashTreeRoot(beaconState), then the comparison.
RootCheck(p) ==
  /\ ProcessAlive
  /\ pc[p] = "rootcheck"
  /\ \E hashOK \in BOOLEAN :
       IF ~hashOK THEN Return(p, "HashState", NoState)
       ELSE IF StateRootMatches(blk[p], st[p])
       THEN Goto(p, "cleanup")
       ELSE Return(p, "StateRootMismatch", NoState)
  /\ UNCHANGED <<blk, st, trace, db, announced, ops, helperClears, ncalls>>
  /\ UNCHANGED <<fcVars, svcVars>>

\* c.CleanupBlockOperations(ctx, block), then the successful return.
Cleanup(p) ==
  /\ ProcessAlive
  /\ pc[p] = "cleanup"
  /\ \E ok \in BOOLEAN :
       IF ok
       THEN /\ ops' = [sent |-> ops.sent \cup {blk[p]},
                       atts |-> ops.atts \cup {blk[p]},
                       deps |-> ops.deps \cup {blk[p]}]
            /\ Did(p, <<"cleanup">>)
            /\ Return(p, None, st[p])
       ELSE /\ ops' = [ops EXCEPT !.sent = @ \cup {blk[p]}]
            /\ UNCHANGED trace
            /\ Return(p, "CleanupFailed", st[p])
  /\ UNCHANGED <<blk, st, db, announced, helperClears, ncalls>>
  /\ UNCHANGED <<fcVars, svcVars>>

\* ------------------------------------------------------- fork-choice store
\* The validator registry of the justified-checkpoint state.
ValidatorTable ==
  [i \in Validators |-> [effectiveBalance |-> i, active |-> TRUE]]

\* The blocks the fork-choice store may hold.
FcRoots == 1..5

NoMessage == [has |-> FALSE, epoch |-> 0, root |-> ZeroRoot]
NoResult == [kind |-> None, root |-> ZeroRoot]
Ok(r) == [kind |-> "ok", root |-> r]
Error == [kind |-> "error", root |-> ZeroRoot]
Panic == [kind |-> "panic", root |-> ZeroRoot]
Diverge == [kind |-> "diverge", root |-> ZeroRoot]

\* bytesutil.ToBytes32: pads the empty slice to the all-zero root.
ToBytes32(r) == IF r = EmptyBytes THEN ZeroRoot ELSE r

\* helpers.StartSlot
StartSlot(epoch) == epoch * SlotsPerEpoch

\* A seeded store: the genesis block, its state, and the checkpoint state of
\* epoch 0 on the genesis block.
GenesisFcStore ==
  [blocks |-> {GenesisRoot},
   states |-> {StateRoot(GenesisRoot)},
   checkpointStates |-> {[epoch |-> 0, root |-> GenesisRoot]},
   latestMessages |-> [i \in Validators |-> NoMessage]]

\* An Ancestor that does not walk to the parent.
Ancestor_NoWalk(S, root, slot) ==
  LET r == ToBytes32(root) IN
  IF r \notin S.blocks THEN Panic
  ELSE IF BlockTable[r].slot < slot THEN Error
  ELSE Ok(root)

\* Store.Ancestor.  s.db.Block answers (nil, nil) for an absent root, and the
\* read of b.Slot then dereferences nil.
RECURSIVE Ancestor(_, _, _)
Ancestor(S, root, slot) ==
  LET r == ToBytes32(root) IN
  IF r \notin S.blocks THEN Panic
  ELSE IF BlockTable[r].slot < slot THEN Error
  ELSE IF BlockTable[r].slot = slot THEN Ok(root)
  ELSE Ancestor(S, BlockTable[r].parent, slot)

\* Store.LatestAttestingBalance, the loop over the active indices from
\* index i on, with the balance summed so far.  wantedBlk.Slot is read inside
\* the loop, where a nil wantedBlk panics.
RECURSIVE AttestingBalanceFrom(_, _, _, _)
AttestingBalanceFrom(S, root, i, balances) ==
  IF i > NValidators THEN Ok(balances)
  ELSE IF ~ValidatorTable[i].active \/ ~S.latestMessages[i].has
  THEN AttestingBalanceFrom(S, root, i + 1, balances)
  ELSE IF ToBytes32(root) \notin S.blocks THEN Panic
  ELSE
    LET wantedRoot == Ancestor(S, S.latestMessages[i].root,
                               BlockTable[ToBytes32(root)].slot) IN
    IF wantedRoot.kind # "ok" THEN wantedRoot
    ELSE AttestingBalanceFrom(S, root, i + 1,
           IF wantedRoot.root = root
           THEN balances + ValidatorTable[i].effectiveBalance
           ELSE balances)

\* Store.LatestAttestingBalance: Ok carries the balance in its root field.
LatestAttestingBalance(S, justified, root) ==
  IF justified \notin S.checkpointStates THEN Panic
  ELSE AttestingBalanceFrom(S, root, 1, 0)

\* Store.Head, lines 538-546: the loop over children[1:], from index k on.
RECURSIVE PickFrom(_, _, _, _, _, _)
PickFrom(S, justified, children, k, head, highest) ==
  IF k > Len(children) THEN Ok(head)
  ELSE
    LET balance == LatestAttestingBalance(S, justified, children[k]) IN
    IF balance.kind = "panic" THEN Panic
    ELSE IF balance.kind # "ok" THEN Error
    ELSE PickFrom(S, justified, children, k + 1,
                  IF balance.root > highest THEN children[k] ELSE head,
                  highest)

\* Store.Head, lines 533-546: the child the descent selects.
PickChild(S, justified, children) ==
  LET head == children[1]
      highest == LatestAttestingBalance(S, justified, head) IN
  IF highest.kind = "panic" THEN Panic
  ELSE IF highest.kind # "ok" THEN Error
  ELSE PickFrom(S, justified, children, 2, head, highest.root)

\* Store.Head, lines 516-527: the children the stubbed scan collects.  The
\* list starts with one empty root, and the one root scanned is empty too.
ScanChildren(S, head, justifiedSlot) ==
  LET r == EmptyBytes IN
  IF ToBytes32(r) \notin S.blocks THEN [kind |-> "panic", children |-> <<>>]
  ELSE IF BlockTable[ToBytes32(r)].parent = head
          /\ BlockTable[ToBytes32(r)].slot > justifiedSlot
  THEN [kind |-> "ok", children |-> <<EmptyBytes, r>>]
  ELSE [kind |-> "ok", children |-> <<EmptyBytes>>]

\* Store.Head.  The selected child is assigned to a variable local to the
\* loop body, so every iteration starts from the same head: an iteration
\* that neither returns nor fails repeats for ever.
StoreHead(S, justified, io) ==
  LET head == justified.root
      justifiedSlot == StartSlot(justified.epoch)
      scan == ScanChildren(S, head, justifiedSlot)
  IN
  IF ~io THEN Error
  ELSE IF scan.kind = "panic" THEN Panic
  ELSE IF Len(scan.children) = 0 THEN Ok(head)
  ELSE
    LET picked == PickChild(S, justified, scan.children) IN
    IF picked.kind # "ok" THEN picked ELSE Diverge


\* A store read or write that failed.
StoreIOError == [kind |-> "storeio", root |-> ZeroRoot]

NoAncCall == [root |-> ZeroRoot, slot |-> 0, res |-> NoResult]
NoBalCall == [root |-> ZeroRoot, res |-> NoResult]
NoFcRes == [op |-> None, arg |-> 0, io |-> FALSE, err |-> None]
NoBlock == 0

\* Store.OnTick
OnTick(t) == t

\* s.db.SaveState(s.ctx, state) on the fork-choice store: S.states holds the
\* keys under which a state is stored, and the state is keyed by its own root.
SaveState(S, state) == [S EXCEPT !.states = @ \cup {StateRoot(state)}]

\* preState.GenesisTime + slot * params.BeaconConfig().SecondsPerSlot, without
\* the genesis time.
SlotTime_NoGenesis(genesisTime, slot) == slot * SecondsPerSlot

\* preState.GenesisTime + slot * params.BeaconConfig().SecondsPerSlot
SlotTime(genesisTime, slot) == genesisTime + slot * SecondsPerSlot

\* s.db.HistoricalStateFromSlot(s.ctx, slot, root) on the fork-choice store:
\* the state after the block root, nil (NoState) when that block is unknown.
PreStateOf(S, root, io) ==
  IF ~io THEN [ok |-> FALSE, state |-> NoState]
  ELSE [ok |-> TRUE, state |-> IF root \in S.blocks THEN root ELSE NoState]

\* The checkpoints a post-state carries.
PostCheckpoint(b, epoch) ==
  [epoch |-> epoch, root |-> IF epoch = 0 THEN GenesisRoot ELSE b]
PostJustified(b) == PostCheckpoint(b, BlockTable[b].justifiedEpoch)
PostFinalized(b) == PostCheckpoint(b, BlockTable[b].finalizedEpoch)

\* An adoption that does not compare the epochs.
AdoptJustified_Always(cur, post) == [cur EXCEPT !.epoch = post.epoch]

\* An adoption that never happens.
AdoptJustified_Never(cur, post) == cur

\* Store.OnBlock, lines 646-649: update justified check point.
AdoptJustified(cur, post) ==
  IF post.epoch > cur.epoch THEN [cur EXCEPT !.epoch = post.epoch] ELSE cur

\* Store.OnBlock, lines 651-654: update finalized check point.
AdoptFinalized(cur, post) ==
  IF post.epoch > cur.epoch THEN [cur EXCEPT !.epoch = post.epoch] ELSE cur

\* Store.OnBlock on the store (T, S, J, F): time, db, justified and
\* finalized checkpoint.  fail names the store call or the hashing that
\* fails ("none": all succeed).  finalizedBlk.Slot is read with no nil check,
\* and the error of Ancestor is dropped.
OnBlock(T, S, J, F, b, fail) ==
  LET slot == BlockTable[b].slot
      pre == PreStateOf(S, BlockTable[b].parent, fail # "prestate")
      S1 == [S EXCEPT !.blocks = @ \cup {SigningRoot(b)}]
      anc == IF fail = "ancestor" THEN StoreIOError
             ELSE Ancestor(S1, SigningRoot(b), BlockTable[ToBytes32(F.root)].slot)
      post == ExecuteStateTransition(pre.state, b)
      S2 == SaveState(S1, post.state)
      Out(d, j, f, e) == [db |-> d, justified |-> j, finalized |-> f, err |-> e]
  IN
  IF ~pre.ok THEN Out(S, J, F, "PreStateIO")
  ELSE IF pre.state = NoState THEN Out(S, J, F, "NoPreState")
  ELSE IF SlotTime(GenesisTime, slot) > T THEN Out(S, J, F, "FromFuture")
  ELSE IF fail = "saveblock" THEN Out(S, J, F, "SaveBlockIO")
  ELSE IF fail = "finalized" THEN Out(S1, J, F, "FinalizedBlockIO")
  ELSE IF fail = "hash" THEN Out(S1, J, F, "HashBlock")
  ELSE IF ToBytes32(F.root) \notin S1.blocks THEN Out(S1, J, F, "panic")
  ELSE IF anc.kind = "panic" THEN Out(S1, J, F, "panic")
  ELSE IF anc.kind # "ok" \/ anc.root # F.root
  THEN Out(S1, J, F, "NotDescendantOfFinalized")
  ELSE IF StartSlot(F.epoch) >= slot THEN Out(S1, J, F, "NotLater")
  ELSE IF ~post.ok THEN Out(S1, J, F, "Transition")
  ELSE IF fail = "savestate" THEN Out(S1, J, F, "SaveStateIO")
  ELSE Out(S2, AdoptJustified(J, PostJustified(b)),
           AdoptFinalized(F, PostFinalized(b)), None)

\* Store.GensisStore(state) on the db S.  The checkpoints carry the tree-hash
\* root of the genesis block, and are assigned before the saves.
GensisStore(T, S, J, F, state, fail) ==
  LET blkRoot == HashTreeRoot(GenesisRoot)
      cp == [epoch |-> 0, root |-> blkRoot]
      S1 == [S EXCEPT !.blocks = @ \cup {SigningRoot(GenesisRoot)}]
      S2 == SaveState(S1, state)
      S3 == [S2 EXCEPT !.checkpointStates = @ \cup {cp}]
      Out(d, e) == [time |-> GenesisTime, db |-> d, justified |-> cp,
                    finalized |-> cp, err |-> e]
  IN
  IF fail = "hash"
  THEN [time |-> T, db |-> S, justified |-> J, finalized |-> F,
        err |-> "HashGenesis"]
  ELSE IF fail = "saveblock" THEN Out(S, "SaveBlockIO")
  ELSE IF fail = "savestate" THEN Out(S1, "SaveStateIO")
  ELSE IF fail = "savecp" THEN Out(S2, "SaveCheckpointIO")
  ELSE Out(S3, None)

\* Store.OnAttestation, line 744: the indexed attestation is a stub with no
\* indices.
IndexedAttestation(a) == <<>>

\* Store.OnAttestation, line 756: whether the latest message msg of a
\* validator is overwritten by a vote of the given target epoch.  absentAs is
\* what s.db.LatestMessage answers for a validator with no message: nil, whose
\* Epoch cannot be read, or the zero message.
Overwrites(msg, epoch, absentAs) ==
  IF msg.has THEN "yes"
  ELSE IF absentAs = "nil" THEN "panic"
  ELSE IF epoch > 0 THEN "yes" ELSE "no"

\* Store.OnAttestation, lines 749-765: update every validator's latest
\* message, from position k of the indices on.
RECURSIVE UpdateLatestMessages(_, _, _, _, _, _, _)
UpdateLatestMessages(S, indices, k, epoch, root, fail, absentAs) ==
  IF k > Len(indices) THEN [db |-> S, err |-> None]
  ELSE
    LET i == indices[k]
        w == Overwrites(S.latestMessages[i], epoch, absentAs)
    IN
    IF fail = "readmsg" THEN [db |-> S, err |-> "LatestMessageIO"]
    ELSE IF w = "panic" THEN [db |-> S, err |-> "panic"]
    ELSE IF w = "no"
    THEN UpdateLatestMessages(S, indices, k + 1, epoch, root, fail, absentAs)
    ELSE IF fail = "savemsg" THEN [db |-> S, err |-> "SaveLatestMessageIO"]
    ELSE UpdateLatestMessages(
           [S EXCEPT !.latestMessages[i] =
              [has |-> TRUE, epoch |-> epoch, root |-> root]],
           indices, k + 1, epoch, root, fail, absentAs)

\* A target check that lets every target through.
TargetKnown_Unchecked(S, tgt) == TRUE

\* Store.OnAttestation, lines 694-697: the beacon node has seen the target
\* block before.
TargetKnown(S, tgt) == HasBlock(S, ToBytes32(tgt.root))

\* Store.OnAttestation on the store (T, S).  a.slot is the slot
\* helpers.AttestationDataSlot computes; valid is the answer of
\* blocks.VerifyIndexedAttestation.
OnAttestation(T, S, a, fail, valid, absentAs) ==
  LET tgt == a.target
      tgtSlot == StartSlot(tgt.epoch)
      base == PreStateOf(S, tgt.root, fail # "prestate")
      exists == tgt \in S.checkpointStates
      S1 == IF exists THEN S ELSE [S EXCEPT !.checkpointStates = @ \cup {tgt}]
      Out(d, e) == [db |-> d, err |-> e]
  IN
  IF ~TargetKnown(S, tgt) THEN Out(S, "UnknownTarget")
  ELSE IF ~base.ok THEN Out(S, "PreStateIO")
  ELSE IF base.state = NoState THEN Out(S, "NoPreState")
  ELSE IF SlotTime(GenesisTime, tgtSlot) > T THEN Out(S, "FromFutureEpoch")
  ELSE IF fail = "hascp" THEN Out(S, "CheckpointIO")
  ELSE IF ~exists /\ fail = "slots" THEN Out(S, "ProcessSlots")
  ELSE IF ~exists /\ fail = "savecp" THEN Out(S, "SaveCheckpointIO")
  ELSE IF fail = "attslot" THEN Out(S1, "AttestationSlot")
  ELSE IF SlotTime(GenesisTime, a.slot + 1) > T THEN Out(S1, "NotYetUsable")
  ELSE IF ~valid THEN Out(S1, "InvalidAttestation")
  ELSE UpdateLatestMessages(S1, IndexedAttestation(a), 1, tgt.epoch, a.root,
                            fail, absentAs)


Init ==
  /\ pc = [p \in Callers |-> "idle"]
  /\ blk = [p \in Callers |-> GenesisRoot]
  /\ st = [p \in Callers |-> NoState]
  /\ ret = [p \in Callers |-> NoRet]
  /\ trace = [p \in Callers |-> <<>>]
  /\ lockHolder = NoCaller
  /\ db = GenesisDB
  /\ snap = NoSnap
  /\ announced = <<>>
  /\ ops = [sent |-> {}, atts |-> {}, deps |-> {}]
  /\ helperClears = {}
  /\ ncalls = 0
  /\ Booted
  /\ justifiedCheckpt = [epoch |-> 0, root |-> GenesisRoot]
  /\ fcStore = GenesisFcStore
  /\ enumeration = <<>>
  /\ headRes = NoResult
  /\ pickRes = NoResult
  /\ time = GenesisTime
  /\ finalizedCheckpt = [epoch |-> 0, root |-> GenesisRoot]
  /\ fcRes = NoFcRes
  /\ rejected = NoBlock
  /\ fcCalls = 0
  /\ ancCall = NoAncCall
  /\ balCall = NoBalCall

Next ==
  \E p \in Callers :
    \/ \E b \in Submitted : Call(p, b)
    \/ Lock(p)
    \/ LocateParent(p)
    \/ LoadPreState(p)
    \/ Verify(p)
    \/ SaveBlockStep(p)
    \/ SaveAttestationTargetStep(p)
    \/ BroadcastStep(p)
    \/ AdvanceStep(p)
    \/ FailedStep(p)
    \/ RootCheck(p)
    \/ Cleanup(p)

Spec == Init /\ [][Next]_vars

\* ---------------------------------------------- fork-choice specification
ParentClosed(B) ==
  \A r \in B : r = GenesisRoot \/ BlockTable[r].parent \in B

Messages ==
  {NoMessage} \cup [has : {TRUE}, epoch : 0..MaxEpoch, root : FcRoots]

\* The stored children of head above the justified slot: what the scan of
\* Head is to collect once it reads the block store.
ChildrenOf(S, head, justifiedSlot) ==
  {r \in S.blocks : BlockTable[r].parent = head /\ BlockTable[r].slot > justifiedSlot}

Orderings(C) ==
  {f \in [1..Cardinality(C) -> C] : \A i, j \in DOMAIN f : f[i] = f[j] => i = j}

\* A fork-choice store after genesis: a tree of stored blocks, any latest
\* messages, the justified checkpoint on the genesis block.
InitHead ==
  /\ pc = [p \in Callers |-> "idle"]
  /\ blk = [p \in Callers |-> GenesisRoot]
  /\ st = [p \in Callers |-> NoState]
  /\ ret = [p \in Callers |-> NoRet]
  /\ trace = [p \in Callers |-> <<>>]
  /\ lockHolder = NoCaller
  /\ db = GenesisDB
  /\ snap = NoSnap
  /\ announced = <<>>
  /\ ops = [sent |-> {}, atts |-> {}, deps |-> {}]
  /\ helperClears = {}
  /\ ncalls = 0
  /\ Booted
  /\ justifiedCheckpt \in [epoch : 0..MaxEpoch, root : {GenesisRoot}]
  /\ \E B \in SUBSET FcRoots, m \in [Validators -> Messages] :
       /\ GenesisRoot \in B
       /\ ParentClosed(B)
       /\ fcStore = [blocks |-> B, states |-> {StateRoot(r) : r \in B},
                     checkpointStates |-> {justifiedCheckpt},
                     latestMessages |-> m]
  /\ enumeration \in Orderings(ChildrenOf(fcStore, justifiedCheckpt.root,
                                          StartSlot(justifiedCheckpt.epoch)))
  /\ headRes = NoResult
  /\ pickRes = NoResult
  /\ time = GenesisTime
  /\ finalizedCheckpt = [epoch |-> 0, root |-> GenesisRoot]
  /\ fcRes = NoFcRes
  /\ rejected = NoBlock
  /\ fcCalls = 0
  /\ ancCall = NoAncCall
  /\ balCall = NoBalCall

\* A caller runs Head().
HeadCall ==
  /\ headRes = NoResult
  /\ \E io \in BOOLEAN : headRes' = StoreHead(fcStore, justifiedCheckpt, io)
  /\ UNCHANGED <<justifiedCheckpt, fcStore, enumeration, pickRes>>
  /\ UNCHANGED <<storeVars, queryVars>>
  /\ UNCHANGED <<pipeVars, svcVars>>

\* One step of the descent over the children a scan yields.
PickCall ==
  /\ pickRes = NoResult
  /\ Len(enumeration) > 0
  /\ pickRes' = PickChild(fcStore, justifiedCheckpt, enumeration)
  /\ UNCHANGED <<justifiedCheckpt, fcStore, enumeration, headRes>>
  /\ UNCHANGED <<storeVars, queryVars>>
  /\ UNCHANGED <<pipeVars, svcVars>>

\* A caller runs LatestAttestingBalance(root); io: the store reads succeed.
BalanceCall ==
  /\ balCall = NoBalCall
  /\ \E root \in FcRoots, io \in BOOLEAN :
       balCall' = [root |-> root,
                   res |-> IF ~io THEN StoreIOError
                           ELSE LatestAttestingBalance(fcStore, justifiedCheckpt, root)]
  /\ UNCHANGED <<justifiedCheckpt, fcStore, enumeration, headRes, pickRes>>
  /\ UNCHANGED <<storeVars, ancCall>>
  /\ UNCHANGED <<pipeVars, svcVars>>

NextHead == HeadCall \/ PickCall \/ BalanceCall

SpecHead == InitHead /\ [][NextHead]_vars


\* ------------------------------------------------- ancestor specification
IdlePipeline ==
  /\ pc = [p \in Callers |-> "idle"]
  /\ blk = [p \in Callers |-> GenesisRoot]
  /\ st = [p \in Callers |-> NoState]
  /\ ret = [p \in Callers |-> NoRet]
  /\ trace = [p \in Callers |-> <<>>]
  /\ lockHolder = NoCaller
  /\ db = GenesisDB
  /\ snap = NoSnap
  /\ announced = <<>>
  /\ ops = [sent |-> {}, atts |-> {}, deps |-> {}]
  /\ helperClears = {}
  /\ ncalls = 0
  /\ Booted

NoQueries ==
  /\ enumeration = <<>>
  /\ headRes = NoResult
  /\ pickRes = NoResult
  /\ ancCall = NoAncCall
  /\ balCall = NoBalCall

\* A block store that holds the genesis block and any of the other blocks.
InitAncestor ==
  /\ IdlePipeline
  /\ NoQueries
  /\ justifiedCheckpt = [epoch |-> 0, root |-> GenesisRoot]
  /\ finalizedCheckpt = [epoch |-> 0, root |-> GenesisRoot]
  /\ time = GenesisTime
  /\ fcRes = NoFcRes
  /\ rejected = NoBlock
  /\ fcCalls = 0
  /\ \E B \in SUBSET FcRoots :
       /\ GenesisRoot \in B
       /\ fcStore = [GenesisFcStore EXCEPT !.blocks = B,
                                          !.states = {StateRoot(r) : r \in B}]

\* A caller runs Ancestor(root, slot); io: the store reads succeed.
AncestorCall ==
  /\ \E root \in {ZeroRoot} \cup FcRoots, slot \in 0..MaxSlot, io \in BOOLEAN :
       ancCall' = [root |-> root, slot |-> slot,
                   res |-> IF ~io THEN StoreIOError
                           ELSE Ancestor(fcStore, root, slot)]
  /\ UNCHANGED <<justifiedCheckpt, fcStore, enumeration, headRes, pickRes>>
  /\ UNCHANGED <<storeVars, balCall>>
  /\ UNCHANGED <<pipeVars, svcVars>>

NextAncestor == AncestorCall

SpecAncestor == InitAncestor /\ [][NextAncestor]_vars

\* ---------------------------------------------- latest-message specification
\* The votes a recording may carry.
VoteRoots == {2, 3}
VoteIndices == {<<1>>, <<2>>, <<1, 2>>}

\* A seeded store with any latest messages.
InitVotes ==
  /\ IdlePipeline
  /\ NoQueries
  /\ justifiedCheckpt = [epoch |-> 0, root |-> GenesisRoot]
  /\ finalizedCheckpt = [epoch |-> 0, root |-> GenesisRoot]
  /\ time = GenesisTime
  /\ fcRes = NoFcRes
  /\ rejected = NoBlock
  /\ fcCalls = 0
  /\ \E m \in [Validators -> Messages] :
       fcStore = [GenesisFcStore EXCEPT !.latestMessages = m]

\* The update loop of OnAttestation runs over the indices of an indexed
\* attestation with the given target epoch and beacon block root.
RecordCall ==
  /\ \E indices \in VoteIndices, epoch \in 0..MaxEpoch, root \in VoteRoots,
        fail \in {"none", "readmsg", "savemsg"}, absentAs \in {"nil", "zero"} :
       LET o == UpdateLatestMessages(fcStore, indices, 1, epoch, root, fail, absentAs) IN
       /\ fcStore' = o.db
       /\ fcRes' = [op |-> "Record",
                    arg |-> [indices |-> indices, epoch |-> epoch, root |-> root],
                    io |-> fail # "none", err |-> o.err]
  /\ UNCHANGED <<justifiedCheckpt, enumeration, headRes, pickRes>>
  /\ UNCHANGED <<time, finalizedCheckpt, rejected, fcCalls, queryVars>>
  /\ UNCHANGED <<pipeVars, svcVars>>

NextVotes == RecordCall

SpecVotes == InitVotes /\ [][NextVotes]_vars

\* ------------------------------------------ fork-choice store specification
\* The blocks and attestations handed to the fork-choice store.
FcBlocks == {2, 3, 4, 9}
Attestations ==
  [target : [epoch : 0..MaxEpoch, root : {GenesisRoot, 5}],
   root : {2}, slot : {0, 1}, indices : {<<1>>}]

\* A seeded store: time at genesis, both checkpoints at epoch 0 on the stored
\* genesis block, no latest messages.
InitFc ==
  /\ IdlePipeline
  /\ NoQueries
  /\ justifiedCheckpt = [epoch |-> 0, root |-> GenesisRoot]
  /\ finalizedCheckpt = [epoch |-> 0, root |-> GenesisRoot]
  /\ time = GenesisTime
  /\ fcRes = NoFcRes
  /\ rejected = NoBlock
  /\ fcCalls = 0
  /\ fcStore = GenesisFcStore

\* No call has crashed the node, and the run may go on.
Alive == fcRes.err # "panic" /\ fcCalls < MaxFcCalls

\* A caller runs GensisStore(state) with the genesis state.
GensisStoreCall ==
  /\ Alive
  /\ \E fail \in {"none", "hash", "saveblock", "savestate", "savecp"} :
       LET o == GensisStore(time, fcStore, justifiedCheckpt, finalizedCheckpt,
                            GenesisRoot, fail) IN
       /\ time' = o.time
       /\ fcStore' = o.db
       /\ justifiedCheckpt' = o.justified
       /\ finalizedCheckpt' = o.finalized
       /\ fcRes' = [op |-> "GensisStore", arg |-> GenesisRoot,
                    io |-> fail # "none", err |-> o.err]
  /\ fcCalls' = fcCalls + 1
  /\ UNCHANGED <<rejected, enumeration, headRes, pickRes, queryVars>>
  /\ UNCHANGED <<pipeVars, svcVars>>

\* A caller runs OnTick(t).
OnTickCall ==
  /\ Alive
  /\ \E t \in 0..MaxNow :
       /\ time' = OnTick(t)
       /\ fcRes' = [op |-> "OnTick", arg |-> t, io |-> FALSE, err |-> None]
  /\ fcCalls' = fcCalls + 1
  /\ UNCHANGED <<justifiedCheckpt, finalizedCheckpt, fcStore, rejected>>
  /\ UNCHANGED <<enumeration, headRes, pickRes, queryVars>>
  /\ UNCHANGED <<pipeVars, svcVars>>

\* A caller runs OnBlock(b).
OnBlockCall ==
  /\ Alive
  /\ \E b \in FcBlocks,
        fail \in {"none", "prestate", "saveblock", "finalized", "hash",
                  "ancestor", "savestate"} :
       LET o == OnBlock(time, fcStore, justifiedCheckpt, finalizedCheckpt, b, fail)
           sound == OnBlock(time, fcStore, justifiedCheckpt, finalizedCheckpt, b, "none")
       IN
       /\ fcStore' = o.db
       /\ justifiedCheckpt' = o.justified
       /\ finalizedCheckpt' = o.finalized
       /\ fcRes' = [op |-> "OnBlock", arg |-> b, io |-> o # sound, err |-> o.err]
       /\ rejected' = IF o.err = "FromFuture" THEN b ELSE rejected
  /\ fcCalls' = fcCalls + 1
  /\ UNCHANGED <<time, enumeration, headRes, pickRes, queryVars>>
  /\ UNCHANGED <<pipeVars, svcVars>>

\* A caller runs OnAttestation(a).
OnAttestationCall ==
  /\ Alive
  /\ \E a \in Attestations :
     \E fail \in {"none", "prestate", "hascp", "slots", "savecp", "attslot"}
                 \cup (IF IndexedAttestation(a) = <<>> THEN {}
                       ELSE {"readmsg", "savemsg"}),
        valid \in BOOLEAN,
        absentAs \in (IF IndexedAttestation(a) = <<>> THEN {"nil"}
                      ELSE {"nil", "zero"}) :
       LET o == OnAttestation(time, fcStore, a, fail, valid, absentAs)
           sound == OnAttestation(time, fcStore, a, "none", valid, absentAs)
       IN
       /\ fcStore' = o.db
       /\ fcRes' = [op |-> "OnAttestation", arg |-> a, io |-> o # sound, err |-> o.err]
  /\ fcCalls' = fcCalls + 1
  /\ UNCHANGED <<time, justifiedCheckpt, finalizedCheckpt, rejected>>
  /\ UNCHANGED <<enumeration, headRes, pickRes, queryVars>>
  /\ UNCHANGED <<pipeVars, svcVars>>

NextFc == GensisStoreCall \/ OnTickCall \/ OnBlockCall \/ OnAttestationCall

SpecFc == InitFc /\ [][NextFc]_vars

\* ------------------------------------------------------- genesis bootstrap
\* The genesis writes with the finalized block ahead of the justified block.
GenesisWrites_FinalizedFirst ==
  <<"block", "attestation_target", "chain_head", "finalized_block",
    "justified_block", "justified_state", "finalized_state">>

\* initializeBeaconChain, lines 993-1019: the writes, in the order of the code.
GenesisWrites ==
  <<"block", "attestation_target", "chain_head", "justified_block",
    "finalized_block", "justified_state", "finalized_state">>

\* One write of initializeBeaconChain on beaconDB d and its records R.
GenesisWrite(d, R, w, io) ==
  CASE w = "block" ->
         LET o == SaveBlock(d, GenesisRoot, io) IN
         [ok |-> o.ok, db |-> o.db, records |-> R]
    [] w = "attestation_target" ->
         LET o == SaveAttestationTarget(d, GenesisRoot, io) IN
         [ok |-> o.ok, db |-> o.db, records |-> R]
    [] w = "chain_head" -> UpdateChainHead(d, R, GenesisRoot, GenesisRoot, io)
    [] OTHER ->
         IF ~io THEN [ok |-> FALSE, db |-> d, records |-> R]
         ELSE [ok |-> TRUE, db |-> d, records |-> R \cup {w}]

\* The blocks callers submit while the node starts.
BootSubmitted == {2, 4}

pipeRest == <<pc, blk, st, ret, trace, lockHolder, snap, announced, ops,
              helperClears, ncalls>>

\* A node before ChainService.Start: either a fresh node with an empty
\* beaconDB, or a node whose chain was initialized in an earlier run.
InitBoot ==
  /\ pc = [p \in Callers |-> "idle"]
  /\ blk = [p \in Callers |-> GenesisRoot]
  /\ st = [p \in Callers |-> NoState]
  /\ ret = [p \in Callers |-> NoRet]
  /\ trace = [p \in Callers |-> <<>>]
  /\ lockHolder = NoCaller
  /\ snap = NoSnap
  /\ announced = <<>>
  /\ ops = [sent |-> {}, atts |-> {}, deps |-> {}]
  /\ helperClears = {}
  /\ ncalls = 0
  /\ \/ db = EmptyDB /\ records = {}
     \/ db = GenesisDB /\ records = GenesisRecords
  /\ boot = "start"
  /\ bootLog = <<>>
  /\ bootRuns = 0
  /\ dbRes = NoDbRes
  /\ canonicalBlocks = NoCanonical
  /\ NoQueries
  /\ justifiedCheckpt = [epoch |-> 0, root |-> GenesisRoot]
  /\ finalizedCheckpt = [epoch |-> 0, root |-> GenesisRoot]
  /\ time = GenesisTime
  /\ fcRes = NoFcRes
  /\ rejected = NoBlock
  /\ fcCalls = 0
  /\ fcStore = GenesisFcStore

\* ChainService.Start, lines 930-953.
StartService ==
  /\ boot = "start"
  /\ \E io \in BOOLEAN, web3 \in BOOLEAN :
       boot' = IF ~io THEN "fatal"
               ELSE IF "head_state" \in records THEN "running"
               ELSE IF ~web3 THEN "fatal"
               ELSE "waiting"
  /\ UNCHANGED <<db, bootLog, records, bootRuns, dbRes>>
  /\ UNCHANGED <<pipeRest, fcVars, canonicalBlocks>>

\* genesisTime := <-c.chainStartChan: the goroutine of Start takes the
\* chain-start event and enters processChainStartTime.
ChainStart ==
  /\ boot = "waiting"
  /\ boot' = "init"
  /\ bootRuns' = bootRuns + 1
  /\ UNCHANGED <<db, bootLog, records, dbRes>>
  /\ UNCHANGED <<pipeRest, fcVars, canonicalBlocks>>

\* initializeBeaconChain, lines 975-991: InitializeState, HeadState and the
\* roots of the genesis state and block.
InitializeState ==
  /\ boot = "init"
  /\ \E io \in BOOLEAN, hashOK \in BOOLEAN :
       IF io /\ hashOK
       THEN /\ boot' = "writes"
            /\ records' = records \cup {"head_state"}
            /\ db' = [db EXCEPT !.histStates[GenesisRoot] = GenesisRoot]
       ELSE /\ boot' = "fatal"
            /\ UNCHANGED <<db, records>>
  /\ UNCHANGED <<bootLog, bootRuns, dbRes>>
  /\ UNCHANGED <<pipeRest, fcVars, canonicalBlocks>>

\* initializeBeaconChain, lines 993-1019: the next write; an error ends the
\* process (log.Fatalf in processChainStartTime).
GenesisWriteStep ==
  /\ boot = "writes"
  /\ \E io \in BOOLEAN :
       LET k == Len(bootLog) + 1
           o == GenesisWrite(db, records, GenesisWrites[k], io)
       IN
       IF o.ok
       THEN /\ db' = o.db
            /\ records' = o.records
            /\ bootLog' = Append(bootLog, GenesisWrites[k])
            /\ boot' = IF k = Len(GenesisWrites) THEN "publish" ELSE "writes"
       ELSE /\ boot' = "fatal"
            /\ UNCHANGED <<db, records, bootLog>>
  /\ UNCHANGED <<bootRuns, dbRes>>
  /\ UNCHANGED <<pipeRest, fcVars, canonicalBlocks>>

\* processChainStartTime, lines 963-965: c.stateInitializedFeed.Send.
Publish ==
  /\ boot = "publish"
  /\ bootLog' = Append(bootLog, "state_initialized")
  /\ boot' = "running"
  /\ UNCHANGED <<db, records, bootRuns, dbRes>>
  /\ UNCHANGED <<pipeRest, fcVars, canonicalBlocks>>

NextBoot ==
  \/ StartService
  \/ ChainStart
  \/ InitializeState
  \/ GenesisWriteStep
  \/ Publish
  \/ \E p \in Callers :
       \/ \E b \in BootSubmitted : Call(p, b)
       \/ Lock(p)
       \/ LocateParent(p)
       \/ LoadPreState(p)
       \/ Verify(p)
       \/ SaveBlockStep(p)
       \/ SaveAttestationTargetStep(p)
       \/ BroadcastStep(p)
       \/ AdvanceStep(p)
       \/ FailedStep(p)
       \/ RootCheck(p)
       \/ Cleanup(p)

SpecBoot == InitBoot /\ [][NextBoot]_vars

\* ------------------------------------------------- chain store specification
\* The blocks the callers of beaconDB save, delete and look up.
DbRoots == {1, 2, 3}

\* The blocks of two forks, which the callers save and set as head.
HeadRoots == {1, 2, 3, 9}

InitDb ==
  /\ IdlePipeline
  /\ NoQueries
  /\ justifiedCheckpt = [epoch |-> 0, root |-> GenesisRoot]
  /\ finalizedCheckpt = [epoch |-> 0, root |-> GenesisRoot]
  /\ time = GenesisTime
  /\ fcRes = NoFcRes
  /\ rejected = NoBlock
  /\ fcCalls = 0
  /\ fcStore = GenesisFcStore

\* What a call of beaconDB leaves alone besides db and dbRes.
dbRest == <<pipeRest, fcVars, boot, bootLog, records, bootRuns>>
dbCalls == <<dbRest, canonicalBlocks>>

DbRes(op, r, io, ok, found) ==
  [op |-> op, root |-> r, io |-> io, had |-> r \in db.blocks, ok |-> ok,
   found |-> found, prev |-> db.head]

\* db.SaveBlock(block)
SaveBlockCall(R) ==
  /\ \E r \in R, io \in BOOLEAN :
       LET o == SaveBlock(db, r, io) IN
       /\ db' = o.db
       /\ dbRes' = DbRes("SaveBlock", r, io, o.ok, FALSE)
  /\ UNCHANGED dbCalls

\* db.DeleteBlock(block)
DeleteBlockCall ==
  /\ \E r \in DbRoots, io \in BOOLEAN :
       LET o == DeleteBlock(db, r, io) IN
       /\ db' = o.db
       /\ dbRes' = DbRes("DeleteBlock", r, io, o.ok, FALSE)
  /\ UNCHANGED dbCalls

\* db.Block(root)
BlockCall ==
  /\ \E r \in DbRoots, io \in BOOLEAN :
       LET o == Block(db, r, io) IN
       dbRes' = DbRes("Block", r, io, o.ok, o.found)
  /\ UNCHANGED <<db, dbCalls>>

\* db.HasBlock(root)
HasBlockCall ==
  /\ \E r \in DbRoots :
       dbRes' = DbRes("HasBlock", r, TRUE, TRUE, HasBlock(db, r))
  /\ UNCHANGED <<db, dbCalls>>

\* db.ClearBlockCache()
ClearBlockCacheCall ==
  /\ db' = ClearBlockCache(db)
  /\ dbRes' = DbRes("ClearBlockCache", ZeroRoot, TRUE, TRUE, FALSE)
  /\ UNCHANGED dbCalls

\* db.MarkEvilBlockHash(root)
MarkEvilBlockHashCall ==
  /\ \E r \in DbRoots :
       /\ db' = MarkEvilBlockHash(db, r)
       /\ dbRes' = DbRes("MarkEvilBlockHash", r, TRUE, TRUE, FALSE)
  /\ UNCHANGED dbCalls

\* db.UpdateChainHead(ctx, block, state) with the block's post-state.
UpdateChainHeadCall ==
  /\ \E r \in HeadRoots, io \in BOOLEAN :
       LET o == UpdateChainHead(db, records, r, r, io) IN
       /\ db' = o.db
       /\ records' = o.records
       /\ dbRes' = DbRes("UpdateChainHead", r, io, o.ok, FALSE)
  /\ UNCHANGED <<pipeRest, fcVars, boot, bootLog, bootRuns, canonicalBlocks>>

\* c.UpdateCanonicalRoots(newHead, newHeadRoot) with a stored block.
UpdateCanonicalRootsCall ==
  /\ \E r \in HeadRoots \cap db.blocks :
       /\ canonicalBlocks' =
            [canonicalBlocks EXCEPT ![BlockTable[r].slot] = SigningRoot(r)]
       /\ dbRes' = DbRes("UpdateCanonicalRoots", r, TRUE, TRUE, FALSE)
  /\ UNCHANGED <<db, dbRest>>

\* c.IsCanonical(slot, hash) on the map c
IsCanonical(c, slot, hash) == c[slot] # ZeroRoot /\ c[slot] = hash

\* The head updates of a node: blocks are saved and set as head.
NextChain ==
  \/ SaveBlockCall(HeadRoots)
  \/ UpdateChainHeadCall
  \/ UpdateCanonicalRootsCall

SpecChain == InitDb /\ [][NextChain]_vars

NextDb ==
  \/ SaveBlockCall(DbRoots)
  \/ DeleteBlockCall
  \/ BlockCall
  \/ HasBlockCall
  \/ ClearBlockCacheCall
  \/ MarkEvilBlockHashCall

SpecDb == InitDb /\ [][NextDb]_vars

\* ------------------------------------------------------------- properties
Pos(seq, x) ==
  IF \E i \in 1..Len(seq) : seq[i] = x
  THEN CHOOSE i \in 1..Len(seq) : seq[i] = x /\ \A j \in 1..(i - 1) : seq[j] # x
  ELSE 0

InPipeline ==
  {"parent", "prestate", "verify", "save", "saveAtt", "broadcast", "advance",
   "failed", "rootcheck", "cleanup"}

Returns(p) == pc[p] # "done" /\ pc'[p] = "done"

\* What the claims call the store: blocks, attestation targets, historical
\* states, validator index, checkpoint records and the evil list.
Persisted(d) ==
  [blocks |-> d.blocks, attTargets |-> d.attTargets, histStates |-> d.histStates,
   valIdx |-> d.valIdx, valDel |-> d.valDel, ffg |-> d.ffg, evil |-> d.evil]

\* C1: a call announces its block only after its save_block and then its
\* save_attestation_target succeeded, in that order; a call that returns a
\* save failure has announced nothing, and every announced root has an
\* attestation target.
C1_AnnounceAfterSaves ==
  /\ \A p \in Callers :
       /\ Pos(trace[p], "announce") > 0 =>
            /\ 0 < Pos(trace[p], "save_block")
            /\ Pos(trace[p], "save_block") < Pos(trace[p], "save_attestation_target")
            /\ Pos(trace[p], "save_attestation_target") < Pos(trace[p], "announce")
       /\ (pc[p] = "done" /\ ret[p].err \in {"SaveBlockBlacklisted", "SaveBlockIO",
                                             "SaveAttestationTargetIO"}) =>
            Pos(trace[p], "announce") = 0
       /\ pc[p] = "broadcast" => blk[p] \in db.blocks /\ blk[p] \in db.attTargets
  /\ \A i \in 1..Len(announced) : announced[i].hash \in db.attTargets

C1_Witness ==
  \E p \in Callers :
    /\ pc[p] = "advance"
    /\ trace[p] = <<"save_block", "save_attestation_target", "announce">>
    /\ announced[Len(announced)].hash = blk[p]

\* C2: at most one caller is between Lock and Unlock, and it is the holder of
\* the mutex.
C2_MutualExclusion ==
  /\ Cardinality({p \in Callers : pc[p] \in InPipeline}) <= 1
  /\ \A p \in Callers : pc[p] \in InPipeline => lockHolder = p

C2_Witness ==
  \E p, q \in Callers :
    /\ p # q
    /\ pc[p] = "advance"
    /\ pc[q] = "lock"

\* C3 as stated: a call whose state transition failed returns
\* BlockFailedProcessing, with the root on the evil list and the block not
\* stored.
C3_Original ==
  \A p \in Callers :
    (pc[p] = "done" /\ Pos(trace[p], "announce") > 0
       /\ ~BlockTable[blk[p]].transitionOK) =>
      /\ ret[p].err = "BlockFailedProcessing"
      /\ blk[p] \in db.evil
      /\ ~HasBlock(db, blk[p])

\* C3 amended: a call whose state transition failed leaves the root on the
\* evil list, so that every later save_block of it fails with Blacklisted; it
\* returns BlockFailedProcessing when delete_block succeeded, and then the
\* block is not stored from then on; it returns the store error when
\* delete_block failed.
C3_EvilBlock ==
  \A p \in Callers :
    /\ (pc[p] = "done" /\ Pos(trace[p], "announce") > 0
          /\ ~BlockTable[blk[p]].transitionOK) =>
         /\ ret[p].err \in {"BlockFailedProcessing", "DeleteBlockIO"}
         /\ blk[p] \in db.evil
         /\ \A io \in BOOLEAN : SaveBlock(db, blk[p], io).err = "Blacklisted"
    /\ (pc[p] = "done" /\ ret[p].err = "BlockFailedProcessing") =>
         /\ ~BlockTable[blk[p]].transitionOK
         /\ Pos(trace[p], "delete") > 0
         /\ blk[p] \in db.evil
         /\ ~HasBlock(db, blk[p])
    /\ (pc[p] = "done" /\ ret[p].err = "SaveBlockBlacklisted") =>
         blk[p] \in db.evil /\ trace[p] = <<>>

C3_Witness ==
  \E p, q \in Callers :
    /\ p # q
    /\ pc[p] = "done" /\ ret[p].err = "BlockFailedProcessing"
    /\ pc[q] = "done" /\ ret[q].err = "SaveBlockBlacklisted"
    /\ blk[q] = blk[p]
    /\ ~HasBlock(db, blk[p])

\* C4: a call that returns StateRootMismatch has put the block's root on the
\* evil list and deleted the block.
C4_StateRootMismatchFatal ==
  \A p \in Callers :
    (pc[p] = "done" /\ ret[p].err = "StateRootMismatch") =>
      blk[p] \in db.evil /\ ~HasBlock(db, blk[p])

\* C5: a call that returns an error other than BlockFailedProcessing or
\* StateRootMismatch leaves the store as it was when the call began.
C5_OtherErrorsLeaveStore ==
  [][\A p \in Callers :
       (Returns(p) /\ ret'[p].err \notin {None, "BlockFailedProcessing",
                                          "StateRootMismatch"}) =>
         Persisted(db') = Persisted(snap.db)]_vars

\* C6: a call either commits save, broadcast, transition and cleanup for its
\* block, or leaves the store as it was but for the block's evil-list entry.
C6_AllOrNothing ==
  [][\A p \in Callers :
       Returns(p) =>
         \/ /\ ret'[p].err = None
            /\ Pos(trace'[p], "save_block") > 0
            /\ Pos(trace'[p], "announce") > 0
            /\ Pos(trace'[p], "save_hist") > 0
            /\ Pos(trace'[p], "cleanup") > 0
         \/ /\ ret'[p].err # None
            /\ Persisted([db' EXCEPT !.evil = @ \ {blk[p]}])
                 = Persisted([snap.db EXCEPT !.evil = @ \ {blk[p]}])]_vars

\* C7: a call returns UnknownParent only when the parent is not stored, then
\* with no state and with the store and the announce log as they were; a call
\* whose parent is not stored gets no further than the parent lookup, and one
\* whose parent is stored is not turned away as UnknownParent.
C7_UnknownParent ==
  [][\A p \in Callers :
       /\ (Returns(p) /\ ret'[p].err = "UnknownParent") =>
            /\ ~HasBlock(db, BlockTable[blk[p]].parent)
            /\ ret'[p].state = NoState
            /\ db' = snap.db
            /\ announced' = announced /\ Len(announced) = snap.announced
            /\ trace'[p] = <<>>
       /\ (pc[p] = "parent" /\ pc'[p] # "parent"
             /\ ~HasBlock(db, BlockTable[blk[p]].parent)) =>
            /\ pc'[p] = "done"
            /\ ret'[p].err \in {"UnknownParent", "StoreIO"}]_vars

C7_Witness ==
  \E p, q \in Callers :
    /\ p # q
    /\ pc[p] = "done" /\ ret[p].err = "UnknownParent"
    /\ blk[q] = blk[p]
    /\ pc[q] = "prestate"
    /\ HasBlock(db, BlockTable[blk[q]].parent)

\* C8 as stated: every call with a block of slot 0 returns GenesisReplay.
C8_Original ==
  \A p \in Callers :
    (pc[p] = "done" /\ BlockTable[blk[p]].slot = 0) => ret[p].err = "GenesisReplay"

\* C8 amended: every call with a block of slot 0 fails and stores nothing:
\* with GenesisReplay once the parent was found, the pre-state loaded and the
\* block hashed, with the error of those earlier steps otherwise.
C8_GenesisReplay ==
  \A p \in Callers :
    BlockTable[blk[p]].slot = 0 =>
      /\ pc[p] \in {"idle", "lock", "parent", "prestate", "verify", "done"}
      /\ trace[p] = <<>>
      /\ pc[p] = "done" =>
           /\ ret[p].state # NoState => ret[p].err = "GenesisReplay"
           /\ ret[p].state = NoState =>
                ret[p].err \in {"UnknownParent", "StoreIO", "StatePreload", "HashBlock"}

C8_Witness ==
  \E p \in Callers :
    /\ pc[p] = "done"
    /\ BlockTable[blk[p]].slot = 0
    /\ ret[p].err = "GenesisReplay"
    /\ HasBlock(db, BlockTable[blk[p]].parent)

RECURSIVE DescendsFrom(_, _, _)
DescendsFrom(S, r, j) ==
  \/ r = j
  \/ /\ r \in S.blocks
     /\ r # GenesisRoot
     /\ DescendsFrom(S, BlockTable[r].parent, j)

RECURSIVE ExpectedBalance(_, _, _)
ExpectedBalance(S, root, i) ==
  IF i > NValidators THEN 0
  ELSE
    (IF /\ ValidatorTable[i].active
        /\ S.latestMessages[i].has
        /\ Ancestor(S, S.latestMessages[i].root, BlockTable[root].slot) = Ok(root)
     THEN ValidatorTable[i].effectiveBalance ELSE 0)
    + ExpectedBalance(S, root, i + 1)

\* C11: on a store whose reads succeed and whose latest messages all point
\* to stored blocks, LatestAttestingBalance of a stored root returns the sum
\* of the effective balances of the active validators whose latest message
\* has that root as its ancestor at the root's slot.
C11_BalanceIsSum ==
  (/\ balCall.res.kind \notin {None, "storeio"}
   /\ balCall.root \in fcStore.blocks
   /\ \A i \in Validators :
        fcStore.latestMessages[i].has => fcStore.latestMessages[i].root \in fcStore.blocks)
  => balCall.res = Ok(ExpectedBalance(fcStore, balCall.root, 1))

\* C12: for a stored block r and store reads that succeed, Ancestor(r, s)
\* returns r when s is the slot of r, fails when s is greater, and when it
\* succeeds for a smaller s it returns the stored block of slot s on the
\* parent chain of r.
C12_AncestorOfStored ==
  (ancCall.res.kind \notin {None, "storeio"} /\ ancCall.root \in fcStore.blocks) =>
    /\ ancCall.slot = BlockTable[ancCall.root].slot => ancCall.res = Ok(ancCall.root)
    /\ ancCall.slot > BlockTable[ancCall.root].slot => ancCall.res.kind = "error"
    /\ (ancCall.slot < BlockTable[ancCall.root].slot /\ ancCall.res.kind = "ok") =>
         /\ ancCall.res.root \in fcStore.blocks
         /\ BlockTable[ancCall.res.root].slot = ancCall.slot
         /\ DescendsFrom(fcStore, ancCall.root, ancCall.res.root)

C12_Witness ==
  /\ ancCall.res.kind = "ok"
  /\ ancCall.root \in fcStore.blocks
  /\ ancCall.slot < BlockTable[ancCall.root].slot
  /\ ancCall.res.root # ancCall.root

\* C13: every Ancestor call ends with a root or an error, and a call whose
\* root is not a stored block ends with an error.
C13_AncestorMissingIsError ==
  ancCall.res.kind # None =>
    /\ ancCall.res.kind \in {"ok", "error", "storeio"}
    /\ ancCall.root \notin fcStore.blocks => ancCall.res.kind \in {"error", "storeio"}

\* A step of the fork-choice store that is a call of the named operation.
FcStep(op) == fcCalls' = fcCalls + 1 /\ fcRes'.op = op

\* Whether seq holds x.
InSeq(seq, x) == \E k \in 1..Len(seq) : seq[k] = x

\* C14: a successful OnAttestation(att) overwrites the latest message of a
\* validator with {target.epoch, beacon_block_root} exactly when the
\* validator is among the attestation's indices and had no latest message or
\* one of a lower epoch, and leaves every other latest message as it was.
C14_LatestMessageUpdate ==
  [][(FcStep("OnAttestation") /\ fcRes'.err = None) =>
       \A i \in Validators :
         LET old == fcStore.latestMessages[i]
             a == fcRes'.arg
         IN
         IF InSeq(a.indices, i) /\ (~old.has \/ a.target.epoch > old.epoch)
         THEN fcStore'.latestMessages[i] =
                [has |-> TRUE, epoch |-> a.target.epoch, root |-> a.root]
         ELSE fcStore'.latestMessages[i] = old]_vars

C16_CheckpointEpochsMonotonic ==
  [][FcStep("OnBlock") =>
       /\ justifiedCheckpt'.epoch >= justifiedCheckpt.epoch
       /\ finalizedCheckpt'.epoch >= finalizedCheckpt.epoch]_vars

C16_Witness ==
  /\ fcRes.op = "OnBlock"
  /\ fcRes.err = None
  /\ BlockTable[fcRes.arg].justifiedEpoch < justifiedCheckpt.epoch

\* C17: the finalized epoch of the store never exceeds its justified epoch.
C17_FinalizedNotAboveJustified ==
  finalizedCheckpt.epoch <= justifiedCheckpt.epoch

C17_Witness ==
  /\ fcRes.op = "OnBlock"
  /\ fcRes.err = None
  /\ finalizedCheckpt.epoch > 0
  /\ finalizedCheckpt.epoch = BlockTable[fcRes.arg].finalizedEpoch

DescendsFromFinalized(S, F, b) ==
  /\ F.root \in S.blocks \cup {b}
  /\ Ancestor([S EXCEPT !.blocks = @ \cup {b}], b, BlockTable[F.root].slot) = Ok(F.root)

LaterThanFinalized(F, b) == BlockTable[b].slot > F.epoch * SlotsPerEpoch

\* C19: an OnBlock(b) call succeeds only if b descends from the finalized
\* block and is later than the finalized epoch's start slot; a call for which
\* either fails returns an error, saves no state and leaves both checkpoints
\* as they were.
C19_FinalizedGate ==
  [][FcStep("OnBlock") =>
       LET b == fcRes'.arg
           meets == /\ DescendsFromFinalized(fcStore, finalizedCheckpt, b)
                    /\ LaterThanFinalized(finalizedCheckpt, b)
       IN
       /\ fcRes'.err = None => meets
       /\ ~meets =>
            /\ fcRes'.err \notin {None, "panic"}
            /\ fcStore'.states = fcStore.states
            /\ justifiedCheckpt' = justifiedCheckpt
            /\ finalizedCheckpt' = finalizedCheckpt]_vars

\* C20: an OnBlock(b) call whose pre-state is loaded while the store time is
\* below genesis_time + b.slot * SECONDS_PER_SLOT fails as FromFuture and
\* leaves the store as it was; no call at or past that time fails so; and a
\* call at or past it, with no store failure and the other requirements
\* met, succeeds.
C20_FromFuture ==
  [][FcStep("OnBlock") =>
       LET b == fcRes'.arg
           slotTime == GenesisTime + BlockTable[b].slot * SecondsPerSlot
           known == BlockTable[b].parent \in fcStore.blocks
       IN
       /\ (known /\ ~fcRes'.io /\ time < slotTime) =>
            /\ fcRes'.err = "FromFuture"
            /\ fcStore' = fcStore
            /\ justifiedCheckpt' = justifiedCheckpt
            /\ finalizedCheckpt' = finalizedCheckpt
            /\ time' = time
       /\ fcRes'.err = "FromFuture" => time < slotTime /\ fcStore' = fcStore
       /\ (/\ known /\ ~fcRes'.io /\ time >= slotTime
           /\ DescendsFromFinalized(fcStore, finalizedCheckpt, b)
           /\ LaterThanFinalized(finalizedCheckpt, b)
           /\ BlockTable[b].transitionOK) =>
            /\ fcRes'.err = None
            /\ b \in fcStore'.blocks]_vars

C20_Witness ==
  /\ fcRes.op = "OnBlock"
  /\ fcRes.err = None
  /\ rejected = fcRes.arg
  /\ time >= GenesisTime + BlockTable[fcRes.arg].slot * SecondsPerSlot
C22_UnknownTarget ==
  [][(FcStep("OnAttestation") /\ fcRes'.arg.target.root \notin fcStore.blocks)
       => /\ fcRes'.err = "UnknownTarget"
          /\ fcStore'.latestMessages = fcStore.latestMessages
          /\ fcStore'.checkpointStates = fcStore.checkpointStates]_vars

\* An attestation on an unknown target was turned away, on a store that has
\* taken a block in.
C22_Witness ==
  /\ fcRes.op = "OnAttestation"
  /\ fcRes.err = "UnknownTarget"
  /\ fcRes.arg.target.root \notin fcStore.blocks
  /\ fcStore.blocks # {GenesisRoot}

\* The errors OnAttestation returns before it looks at the attestation's slot.
BeforeUsableCheck ==
  {"UnknownTarget", "PreStateIO", "NoPreState", "FromFutureEpoch",
   "CheckpointIO", "ProcessSlots", "SaveCheckpointIO", "AttestationSlot"}

C24_GenesisStore ==
  [][(FcStep("GensisStore") /\ fcRes'.err = None)
       => LET cp == [epoch |-> 0, root |-> SigningRoot(GenesisRoot)] IN
          /\ time' = GenesisTime
          /\ justifiedCheckpt' = cp
          /\ finalizedCheckpt' = cp
          /\ justifiedCheckpt'.root \in fcStore'.blocks
          /\ justifiedCheckpt' \in fcStore'.checkpointStates
          /\ finalizedCheckpt' \in fcStore'.checkpointStates]_vars

\* C25: over any sequence of OnTick calls the store time never takes a value
\* lower than one it held earlier.
C25_TimeMonotonic ==
  [][FcStep("OnTick") => time' >= time]_vars

\* C26: genesis bootstrap persists the genesis block, attestation target,
\* chain head, justified block, finalized block, justified state and
\* finalized state in this order; a failure at any step stops the sequence,
\* and the state-initialized feed is published only after all seven writes.
C26_BootstrapOrder ==
  [][/\ \E n \in 0..8 :
          bootLog' = SubSeq(<<"block", "attestation_target", "chain_head",
                              "justified_block", "finalized_block",
                              "justified_state", "finalized_state",
                              "state_initialized">>, 1, n)
     /\ boot = "fatal" => bootLog' = bootLog
     /\ (boot # "fatal" /\ boot' = "fatal") => bootLog' = bootLog]_vars

\* The bootstrap has run to its end: seven writes and the publication, and
\* beaconDB holds the genesis records.
C26_Witness ==
  /\ Len(bootLog) = 8
  /\ bootLog[8] = "state_initialized"
  /\ records = GenesisRecords
  /\ GenesisRoot \in db.blocks
  /\ GenesisRoot \in db.attTargets

\* Every genesis record is in beaconDB.
GenesisPersisted ==
  /\ GenesisRoot \in db.blocks
  /\ GenesisRoot \in db.attTargets
  /\ GenesisRecords \subseteq records

\* C27: the bootstrap runs at most once, no ReceiveBlock call succeeds before
\* all genesis records have been persisted, and no bootstrap runs when a head
\* state exists at Start.
C27_BootstrapBeforeBlocks ==
  /\ bootRuns <= 1
  /\ \A p \in Callers :
       (pc[p] = "done" /\ ret[p].err = None) => GenesisPersisted
  /\ (boot = "running" /\ bootLog = <<>>) => bootRuns = 0

\* C28: after a successful save_block(b), has_block(signing_root(b)) is true
\* and block(signing_root(b)) returns b; saving a stored block again leaves
\* the same result; block(root) of a root that is not stored returns absent
\* without an error.
C28_SaveThenLookup ==
  [][/\ (dbRes'.op = "SaveBlock" /\ dbRes'.ok)
          => /\ dbRes'.root \in db'.blocks
             /\ \A io \in BOOLEAN :
                  Block(db', dbRes'.root, io) = [ok |-> TRUE, found |-> TRUE]
             /\ dbRes'.had => db'.blocks = db.blocks
     /\ (dbRes'.op = "Block" /\ dbRes'.io /\ ~dbRes'.had)
          => (dbRes'.ok /\ ~dbRes'.found)]_vars

\* A stored block has been saved a second time.
C28_Witness == dbRes.op = "SaveBlock" /\ dbRes.ok /\ dbRes.had

\* C29: after a successful delete_block(b), block(signing_root(b)) returns
\* absent, has_block is false and the block cache holds no entry for the root.
C29_DeleteThenLookup ==
  [][(dbRes'.op = "DeleteBlock" /\ dbRes'.ok)
       => /\ dbRes'.root \notin db'.blocks
          /\ dbRes'.root \notin db'.cache
          /\ \A io \in BOOLEAN :
               Block(db', dbRes'.root, io).ok => ~Block(db', dbRes'.root, io).found]_vars

\* A stored block has been deleted.
C29_Witness ==
  /\ dbRes.op = "DeleteBlock"
  /\ dbRes.ok
  /\ dbRes.had
  /\ dbRes.root \notin db.blocks

\* The highest slot over a set of stored blocks; 0 for an empty store.
MaxSlotOf(B) ==
  IF B = {} THEN 0
  ELSE CHOOSE m \in {BlockTable[r].slot : r \in B} :
         \A r \in B : BlockTable[r].slot <= m

\* C30: after any sequence of save_block and delete_block operations, the
\* pipeline's deletion of a block that failed processing included,
\* highest_block_slot() is the maximum slot over the blocks stored.
C30_HighestBlockSlot == db.highestSlot = MaxSlotOf(db.blocks)

\* C31: update_chain_head with a block that is not stored fails and leaves
\* the head pointer, the canonical index and the stored head state unchanged.
C31_UpdateHeadNeedsBlock ==
  [][(dbRes'.op = "UpdateChainHead" /\ ~dbRes'.had)
       => /\ ~dbRes'.ok
          /\ db'.head = db.head
          /\ db'.canonical = db.canonical
          /\ db'.headState = db.headState]_vars

\* A head update with a block that is not stored failed although the store
\* itself answered.
C31_Witness ==
  /\ dbRes.op = "UpdateChainHead"
  /\ dbRes.io
  /\ ~dbRes.had
  /\ ~dbRes.ok
  /\ db.head # ZeroRoot

\* C32: after a successful update_chain_head on a stored block b,
\* chain_head() returns b and canonical_block_by_slot(b.slot) returns b,
\* whether or not b.slot is lower than the previous head's slot.
C32_ExplicitHeadWins ==
  [][(dbRes'.op = "UpdateChainHead" /\ dbRes'.ok)
       => /\ ChainHead(db') = dbRes'.root
          /\ CanonicalBlockBySlot(db', BlockTable[dbRes'.root].slot)
               = dbRes'.root]_vars

\* The head was set to a block at a lower slot than the head before.
C32_Witness ==
  /\ dbRes.op = "UpdateChainHead"
  /\ dbRes.ok
  /\ dbRes.prev # ZeroRoot
  /\ BlockTable[dbRes.root].slot < BlockTable[dbRes.prev].slot
  /\ ChainHead(db) = dbRes.root

\* The canonical map c is a path: the parent of the entry at every slot
\* s > 0 present is the entry at the greatest present slot below s.
CanonicalIsPath(c) ==
  \A s \in 1..MaxSlot :
    LET below == {t \in 0..(s - 1) : c[t] # ZeroRoot} IN
    (c[s] # ZeroRoot /\ below # {})
      => \E t \in below :
           /\ \A u \in below : u <= t
           /\ BlockTable[c[s]].parent = c[t]

\* C33: after any sequence of head updates the canonical index is a single
\* path, and no entry remains at a slot above the new head's slot.
C33_CanonicalIsPath ==
  [][dbRes'.op = "UpdateCanonicalRoots"
       => /\ CanonicalIsPath(canonicalBlocks')
          /\ IsCanonical(canonicalBlocks', BlockTable[dbRes'.root].slot,
                         dbRes'.root)
          /\ \A s \in 0..MaxSlot :
               s > BlockTable[dbRes'.root].slot
                 => canonicalBlocks'[s] = ZeroRoot]_vars

C35_HistoricalPostState ==
  \A p \in Callers :
    (pc[p] = "done" /\ ret[p].err = None) =>
      /\ db.histStates[SigningRoot(blk[p])] # NoState
      /\ db.histStates[SigningRoot(blk[p])] = ret[p].state
      /\ StateRootMatches(blk[p], db.histStates[SigningRoot(blk[p])])

\* C36: every Head() call whose store reads succeed terminates with a root,
\* and the root it returns has no stored child above the start slot of the
\* justified epoch.
C36_HeadTerminatesAtLeaf ==
  (headRes # NoResult /\ headRes.kind # "error") =>
    /\ headRes.kind \notin {"diverge", "panic"}
    /\ ChildrenOf(fcStore, headRes.root, StartSlot(justifiedCheckpt.epoch)) = {}

\* C40: on a store in which every latest message points to a stored block
\* that descends from the justified root, a Head() call whose store reads
\* succeed returns a root, and so does each step of its descent over the
\* children of a block, also when a latest-message block is at a lower slot
\* than the child being weighed.
C40_HeadNoErrorOnForks ==
  (\A i \in Validators :
     fcStore.latestMessages[i].has =>
       /\ fcStore.latestMessages[i].root \in fcStore.blocks
       /\ DescendsFrom(fcStore, fcStore.latestMessages[i].root, justifiedCheckpt.root))
  => /\ (headRes # NoResult /\ headRes.kind # "error") => headRes.kind = "ok"
     /\ pickRes # NoResult => pickRes.kind = "ok"

\* The errors of the parent lookup, the pre-state load and the pre-validity
\* checks of VerifyBlockValidity.
PreCheckErrors ==
  {"UnknownParent", "StoreIO", "StatePreload", "GenesisReplay",
   "ParentNotProcessed", "UnknownEth1", "FromFuture"}

\* C37 as stated: a call that fails the parent lookup, the pre-state load or
\* a pre-validity check returns with its block not in the store and without
\* an announce.
C37_Original ==
  [][\A p \in Callers :
       (Returns(p) /\ ret'[p].err \in PreCheckErrors) =>
         /\ ~HasBlock(db', SigningRoot(blk[p]))
         /\ Pos(trace'[p], "announce") = 0]_vars

\* C37 amended: a call reaches save_block only from the validity check, with
\* the parent stored, the pre-state loaded and a slot other than 0, it saves
\* only there and announces only after its save; a call that fails the parent
\* lookup, the pre-state load or a pre-validity check has saved and announced
\* nothing, so that the store and the announce log are as when it took the
\* lock and the block is in the store only if it was there before the call.
C37_ChecksBeforeSave ==
  [][\A p \in Callers :
       /\ (pc[p] # "save" /\ pc'[p] = "save") =>
            /\ pc[p] = "verify"
            /\ HasBlock(db, BlockTable[blk[p]].parent)
            /\ st[p] # NoState
            /\ BlockTable[blk[p]].slot # 0
            /\ \E now \in 0..MaxNow :
                 VerifyBlockValidity(db, blk[p], now, TRUE) = None
            /\ trace[p] = <<>>
       /\ (Pos(trace[p], "save_block") = 0 /\ Pos(trace'[p], "save_block") > 0) =>
            pc[p] = "save"
       /\ (Pos(trace[p], "announce") = 0 /\ Pos(trace'[p], "announce") > 0) =>
            Pos(trace[p], "save_block") > 0
       /\ (Returns(p) /\ ret'[p].err \in PreCheckErrors) =>
            /\ trace'[p] = <<>>
            /\ db' = snap.db
            /\ announced' = announced /\ Len(announced) = snap.announced
            /\ HasBlock(db', SigningRoot(blk[p]))
                 => HasBlock(snap.db, SigningRoot(blk[p]))]_vars

\* One call was turned away as from the future with nothing stored, another
\* passed the checks and saved its block.
C37_Witness ==
  \E p, q \in Callers :
    /\ p # q
    /\ pc[p] = "done" /\ ret[p].err = "FromFuture"
    /\ ~HasBlock(db, SigningRoot(blk[p]))
    /\ pc[q] = "saveAtt" /\ trace[q] = <<"save_block">>
    /\ HasBlock(db, SigningRoot(blk[q]))

\* C38: a call that fails the state-root check has saved no historical state
\* for its block, has written no validator-index entry and no FFG checkpoint
\* record, and has cleared neither the helper caches nor the block cache.
C38_RootCheckBeforeHousekeeping ==
  [][\A p \in Callers :
       (Returns(p) /\ ret'[p].err = "StateRootMismatch") =>
         /\ Pos(trace'[p], "save_hist") = 0
         /\ Pos(trace'[p], "val_idx") = 0
         /\ Pos(trace'[p], "val_del") = 0
         /\ Pos(trace'[p], "ffg") = 0
         /\ Pos(trace'[p], "clear_caches") = 0
         /\ db'.histStates = snap.db.histStates
         /\ db'.valIdx = snap.db.valIdx
         /\ db'.ffg = snap.db.ffg
         /\ blk[p] \notin helperClears']_vars

\* C39: a ReceiveBlock(b) call that returns without error returns the
\* post-state of b, the tree-hash root of that state is b.state_root, b is
\* stored and the root of b is not on the evil list.
C39_SuccessMeansAccepted ==
  [][\A p \in Callers :
       (Returns(p) /\ ret'[p].err = None) =>
         /\ ret'[p].state = ExecuteStateTransition(BlockTable[blk[p]].parent, blk[p]).state
         /\ ret'[p].state # NoState
         /\ BlockTable[blk[p]].stateRootOK
         /\ HasBlock(db', SigningRoot(blk[p]))
         /\ SigningRoot(blk[p]) \notin db'.evil]_vars

\* A call returned without error after a call with a block whose state root
\* does not match was turned away.
C39_Witness ==
  \E p, q \in Callers :
    /\ p # q
    /\ pc[p] = "done" /\ ret[p].err = None /\ ret[p].state = blk[p]
    /\ HasBlock(db, SigningRoot(blk[p]))
    /\ pc[q] = "done" /\ ret[q].err = "StateRootMismatch"

====
